---- MODULE Spec2Model ----
(***************************************************************************)
(* A model of the shoe customizer of src/src/app/page.tsx (first Page /    *)
(* Model pair, lines 1-342): the customization state held by Page, the     *)
(* host-message handler, the interaction toggle, the pointer handlers and  *)
(* the Model effect that reconciles the scene graph with the state.        *)
(*                                                                         *)
(* Conventions.                                                            *)
(*  - An optional JavaScript property is a sequence: <<>> when the         *)
(*    property is absent (reads as undefined), <<v>> when it holds v.      *)
(*  - Mapping numbers are fixed-point hundredths (25 is 0.25, 200 is 2).   *)
(*  - React state setters are modelled as immediate writes: every setter   *)
(*    in the file either uses a functional updater or writes a constant.   *)
(*    The closures that read `interactive` are refreshed by the            *)
(*    synchronous re-render that follows the toggle's change event.        *)
(***************************************************************************)
EXTENDS Integers, Sequences, FiniteSets, TLC

\* ------------------------------------------------------------------ bounds
\* number of input events (messages, pointer events, toggles) in a run
MaxEvents == 2

\* number of slider moves in a run
MaxMoves == 1

\* number of times the page is mounted in a run
MaxMounts == 2

\* width and height in pixels of the small image picked for cropping
SrcW == 4
SrcH == 3

\* --------------------------------------------------------------- constants
PART_NAMES ==
  <<"logo", "ankleflap", "laceguardarea", "midsole",
    "outsole", "sidepanel", "upper", "laces">>

PartSet == {PART_NAMES[i] : i \in 1..Len(PART_NAMES)}

\* Array.prototype.includes
includes(arr, x) == \E i \in 1..Len(arr) : arr[i] = x

NULL == "<null>"
WHITE == "#ffffff"

\* variant: the parts start black
initialColors_black == [p \in PartSet |-> "#000000"]

initialColors == [p \in PartSet |-> WHITE]
initialTextures == [p \in PartSet |-> NULL]
initialMappings == [p \in PartSet |-> [offsetX |-> 0, offsetY |-> 0, scale |-> 100]]

\* the material state the asset carries at load time, before any pass
AssetTint == "#asset"
AssetMap == "asset:baseColorMap"

\* ------------------------------------------------------------ input domains
\* the parts host messages address: the first part and one further part
MsgParts == {"logo", "midsole"}
UnknownParts == {"wheel"}
ColorInputs == {"", "#ff0000"}
ImageInputs == {"", "blob:a"}
MappingInputs == {[offsetX |-> 25, offsetY |-> -10, scale |-> 200]}

Opt(S) == {<<>>} \cup {<<v>> : v \in S}

\* e.data of a MessageEvent: null, undefined, a primitive, or an object
ObjectData ==
  [kind : {"object"},
   part : Opt(MsgParts \cup UnknownParts),
   color : Opt(ColorInputs),
   mapping : Opt(MappingInputs),
   image : Opt(ImageInputs)]
MessageData ==
  ObjectData \cup {[kind |-> "null"], [kind |-> "undefined"], [kind |-> "primitive"]}

\* e.object.name of a pointer hit: a part node (one that messages address, or
\* "laces") or a scene node that is no part
NodeNames == MsgParts \cup {"laces", "Scene"}

\* ------------------------------------------------------------------- state
VARIABLES
  colors,        \* Page.colors
  textures,      \* Page.textures
  mappings,      \* Page.mappings
  selectedPart,  \* Page.selectedPart
  interactive,   \* Page.interactive
  meshes,        \* the PART_NAMES that resolve to a mesh node in the asset
  scene,         \* per part node: userData and material as the effect left them
  dirty,         \* an effect dependency changed since the last pass
  threw,         \* the last event's handler raised an uncaught exception
  lastEvent,     \* the last input event delivered (a message's data is what line 192 logs)
  nMoves,        \* number of slider moves so far
  imageSrc,      \* Page.imageSrc: the picked file as a data url, or NULL
  showCrop,      \* Page.showCrop
  croppedAreaPixels,\* Page.croppedAreaPixels: <<>> for null, else <<region>>
  cropJob,       \* the applyCrop call in flight, if any: <<>> or <<job>>
  view,          \* what is on screen: loading (Suspense fallback), model, crashed (render error, tree unmounted) or unmounted
  gltf,          \* what useGLTF has for MODEL_URL: loading, ready or failed
  original,      \* the material the part meshes share in the loaded asset
  listeners,     \* number of 'message' handlers registered on window
  nMounts,       \* number of times Page was mounted
  pending,       \* state updaters queued by setters since the last render of Page
  batch,         \* e.data of the messages handled since the last render
  flushed,       \* e.data of the messages whose updaters the last render applied
  nEvents        \* number of input events delivered

viewVars == <<gltf, view>>
mountVars == <<listeners, nMounts>>
batchVars == <<pending, batch, flushed>>
cropVars == <<imageSrc, showCrop, croppedAreaPixels, cropJob>>
custVars == <<colors, textures, mappings, selectedPart, interactive>>
vars == <<colors, textures, mappings, selectedPart, interactive,
          meshes, scene, dirty, threw, lastEvent, nEvents,
          nMoves, imageSrc, showCrop, croppedAreaPixels, cropJob,
          gltf, view, original,
          listeners, nMounts,
          pending, batch, flushed>>

\* ------------------------------------------------- customization operations
\* the record the three per-part maps form
Cust(c, t, m) == [colors |-> c, textures |-> t, mappings |-> m]

\* variant: the new object has the written key only, the spread is left out
Put_noSpread(obj, key, val) == [k \in {key} |-> val]

\* the object spread { ...obj, [key]: val }
Put(obj, key, val) ==
  [k \in DOMAIN obj \cup {key} |-> IF k = key THEN val ELSE obj[k]]

\* variant: the color write leaves the texture reference in place
setColor_keepTexture(st, part, color) ==
  [st EXCEPT !.colors = Put(@, part, color)]

\* handler, lines 202-203: setColors(...color), setTextures(...null)
setColor(st, part, color) ==
  [st EXCEPT !.colors = Put(@, part, color), !.textures = Put(@, part, NULL)]

\* variant: the mapping is stored only for a part that has a texture
setUVTransform_ifTextured(st, part, mapping) ==
  IF st.textures[part] # NULL
    THEN [st EXCEPT !.mappings = Put(@, part, mapping)]
    ELSE st

\* handler, line 208
setUVTransform(st, part, mapping) ==
  [st EXCEPT !.mappings = Put(@, part, mapping)]

\* variant: the texture write also resets the stored color
setTexture_resetColor(st, part, image) ==
  [st EXCEPT !.textures = Put(@, part, image), !.colors = Put(@, part, WHITE)]

\* handler, line 213
setTexture(st, part, image) ==
  [st EXCEPT !.textures = Put(@, part, image)]

\* JavaScript truthiness of an optional string / optional object property
TruthyStr(opt) == opt # <<>> /\ opt[1] # ""
TruthyObj(opt) == opt # <<>>

\* const { part, color, mapping, image } = e.data
DestructureThrows(data) == data.kind \in {"null", "undefined"}
Destructure(data) ==
  IF data.kind = "object"
    THEN [part |-> data.part, color |-> data.color,
          mapping |-> data.mapping, image |-> data.image]
    ELSE [part |-> <<>>, color |-> <<>>, mapping |-> <<>>, image |-> <<>>]

\* one of the three `if (field) set...` statements of the handler
ApplyField(st, field, part, msg) ==
  CASE field = "color" ->
         IF TruthyStr(msg.color) THEN setColor(st, part, msg.color[1]) ELSE st
    [] field = "mapping" ->
         IF TruthyObj(msg.mapping) THEN setUVTransform(st, part, msg.mapping[1]) ELSE st
    [] field = "image" ->
         IF TruthyStr(msg.image) THEN setTexture(st, part, msg.image[1]) ELSE st

ApplyFields(st, order, part, msg) ==
  ApplyField(ApplyField(ApplyField(st, order[1], part, msg),
                        order[2], part, msg),
             order[3], part, msg)

\* variant: the image statement is moved in front of the color statement
HandlerOrder_imageFirst == <<"image", "color", "mapping">>

\* the order of the three statements in the handler
HandlerOrder == <<"color", "mapping", "image">>

\* variant: the membership test is dropped, any part string passes
KnownPart_unchecked(msg) == msg.part # <<>>

\* if (!PART_NAMES.includes(part)) return
KnownPart(msg) == msg.part # <<>> /\ includes(PART_NAMES, msg.part[1])

\* variant: the effect lists only colors among its dependencies
AnyFieldApplied_colorOnly(msg) == TruthyStr(msg.color)

\* some setter ran, so a state object has a new identity and the effect re-runs
AnyFieldApplied(msg) ==
  TruthyStr(msg.color) \/ TruthyObj(msg.mapping) \/ TruthyStr(msg.image)

\* Page is mounted (its listeners and controls exist); Model is mounted
\* (useGLTF has the asset, the group and the effect exist)
PageMounted == view \in {"loading", "model"}
ModelMounted == view = "model"

\* the event loop hands input event e to its listener
Deliver(e) ==
  /\ PageMounted
  /\ nEvents < MaxEvents
  /\ nEvents' = nEvents + 1
  /\ lastEvent' = e

\* ----------------------------------------------------------------- actions
\* Page.handler: window 'message' listener, run when window dispatches a
\* message while it is registered
handler(data) ==
  /\ listeners > 0
  /\ Deliver([kind |-> "message", data |-> data])
  /\ UNCHANGED <<selectedPart, interactive, meshes, scene,
                 nMoves, cropVars, viewVars, original,
                 mountVars,
                 batchVars>>
  /\ IF DestructureThrows(data)
       THEN /\ threw' = TRUE
            /\ UNCHANGED <<colors, textures, mappings, dirty>>
       ELSE LET msg == Destructure(data) IN
            /\ threw' = FALSE
            /\ IF ~KnownPart(msg)
                 THEN UNCHANGED <<colors, textures, mappings, dirty>>
                 ELSE LET st == ApplyFields(Cust(colors, textures, mappings),
                                            HandlerOrder, msg.part[1], msg) IN
                      /\ colors' = st.colors
                      /\ textures' = st.textures
                      /\ mappings' = st.mappings
                      /\ dirty' = (dirty \/ AnyFieldApplied(msg))

\* variant: switching interaction also drops every texture
toggleInteractive_clearTextures ==
  /\ Deliver([kind |-> "toggle"])
  /\ selectedPart' = IF interactive THEN NULL ELSE selectedPart
  /\ interactive' = ~interactive
  /\ textures' = initialTextures
  /\ dirty' = TRUE
  /\ threw' = FALSE
  /\ UNCHANGED <<colors, mappings, meshes, scene,
                 nMoves, cropVars, viewVars, original, mountVars,
                 batchVars>>

\* variant: the toggle flips the flag and leaves the selection alone
toggleInteractive_keepSelection ==
  /\ Deliver([kind |-> "toggle"])
  /\ interactive' = ~interactive
  /\ dirty' = TRUE
  /\ threw' = FALSE
  /\ UNCHANGED <<colors, textures, mappings, selectedPart, meshes, scene,
                 nMoves, cropVars, viewVars, original,
                 mountVars,
                 batchVars>>

\* Page.toggleInteractive
toggleInteractive ==
  /\ Deliver([kind |-> "toggle"])
  /\ selectedPart' = IF interactive THEN NULL ELSE selectedPart
  /\ interactive' = ~interactive
  /\ dirty' = TRUE
  /\ threw' = FALSE
  /\ UNCHANGED <<colors, textures, mappings, meshes, scene,
                 nMoves, cropVars, viewVars, original,
                 mountVars,
                 batchVars>>

\* variant: the hit name is selected without the membership test
HitToPart_unchecked(hit) == hit

\* PART_NAMES.includes(hit) ? hit : null
HitToPart(hit) == IF includes(PART_NAMES, hit) THEN hit ELSE NULL

\* variant: the group keeps its pointer handler when interaction is off
PointerDownBound_always == TRUE

\* the group has a pointer-down handler only while interactive
PointerDownBound == interactive

\* Model: <group onPointerDown={interactive ? (e) => ... : undefined}>
onPointerDown(hit) ==
  /\ Deliver([kind |-> "pointerdown", hit |-> hit])
  /\ selectedPart' = IF PointerDownBound THEN HitToPart(hit) ELSE selectedPart
  /\ dirty' = (dirty \/ selectedPart' # selectedPart)
  /\ threw' = FALSE
  /\ UNCHANGED <<colors, textures, mappings, interactive, meshes, scene,
                 nMoves, cropVars, viewVars, original,
                 mountVars,
                 batchVars>>

\* variant: a missed click keeps the selection
onPointerMissed_keepSelection ==
  /\ Deliver([kind |-> "pointermissed"])
  /\ threw' = FALSE
  /\ UNCHANGED <<colors, textures, mappings, selectedPart, interactive,
                 meshes, scene, dirty,
                 nMoves, cropVars, viewVars, original,
                 mountVars,
                 batchVars>>

\* Canvas onPointerMissed={() => interactive && setSelectedPart(null)}
onPointerMissed ==
  /\ Deliver([kind |-> "pointermissed"])
  /\ selectedPart' = IF interactive THEN NULL ELSE selectedPart
  /\ dirty' = (dirty \/ selectedPart' # selectedPart)
  /\ threw' = FALSE
  /\ UNCHANGED <<colors, textures, mappings, interactive, meshes, scene,
                 nMoves, cropVars, viewVars, original,
                 mountVars,
                 batchVars>>

\* ------------------------------------------------------- mapping sliders
\* the three range inputs of the HUD: offsets from -1 to 1, scale from 0.5
\* to 5; a range input reports a number within its min and max (the ends of
\* each range are taken, in hundredths)
SliderKeys == {"offsetX", "offsetY", "scale"}
SliderValues(key) == IF key = "scale" THEN {50, 500} ELSE {-100, 100}

\* the sliders are rendered for the selected part when it has a texture:
\* interactive && selectedPart && ( ... textures[selectedPart] && ( ... ) )
SlidersShown ==
  /\ PageMounted
  /\ interactive
  /\ selectedPart # NULL
  /\ textures[selectedPart] # NULL /\ textures[selectedPart] # ""

\* { ...m[selectedPart], [key]: value }
SliderWrite(m, key, value) == Put(m, key, value)

\* Page.updateMapping, called by a slider's onChange
updateMapping(key, value) ==
  /\ SlidersShown
  /\ nMoves < MaxMoves
  /\ nMoves' = nMoves + 1
  /\ lastEvent' = [kind |-> "slider", key |-> key, value |-> value]
  /\ mappings' = IF selectedPart = NULL THEN mappings
                 ELSE Put(mappings, selectedPart,
                          SliderWrite(mappings[selectedPart], key, value))
  /\ dirty' = TRUE
  /\ threw' = FALSE
  /\ UNCHANGED <<colors, textures, selectedPart, interactive, meshes, scene,
                 nEvents,
                 cropVars, viewVars, original,
                 mountVars,
                 batchVars>>

\* ------------------------------------------------------- the Model effect
\* A node record is a part's mesh with its one material (the glTF loader gives
\* a mesh one material) and the counters of what passes did to it:
\*   cloned, clones      userData.cloned, number of material.clone() calls
\*   material            mesh.material: the asset's shared "original" or the
\*                       node's own "clone"
\*   map, image, tint    material.map as the url its texture was created for
\*                       (NULL when null), the load state of that texture's
\*                       image ("none" without a map), and material.color
\*   repeat, offset      map.repeat and map.offset (<<>> without a map)
\*   loads               number of textures loader.load created for the node
\*   mapsDisposed        number of dispose() calls on those textures (the pass
\*                       makes none: line 114 only drops the reference)
\*   stale               urls whose load is in flight for a texture the
\*                       material no longer references
\*   staleLanded         loads that succeeded for such a texture
\*   clonesDisposed      number of dispose() calls on the node's clones
\*   secondaryMaps       the secondary maps of the material that are non-null
\*   roughness, metalness
\*   outline, attached   userData.outline is set; LineSegments children
\*   created, detached, geomDisposed, matDisposed   overlay life-cycle counts

\* variant: the material is cloned on every pass
NeedsClone_always(node) == TRUE

\* if (!mesh.userData.cloned)
NeedsClone(node) == ~node.cloned

\* variant: the clone is made and the node marked, but mesh.material is not
\* pointed at the clone
CloneMaterial_keepOriginal(node) ==
  IF NeedsClone(node)
    THEN [node EXCEPT !.clones = @ + 1, !.cloned = TRUE]
    ELSE node

\* lines 99-107: clone the material once, make the clone the mesh's material
\* and mark the node
CloneMaterial(node) ==
  IF NeedsClone(node)
    THEN [node EXCEPT !.clones = @ + 1, !.cloned = TRUE, !.material = "clone"]
    ELSE node

\* variant: the user scale is used as the tile count directly
Tile_unscaled(scale) == scale

\* const tile = 2 * scale
Tile(scale) == 2 * scale

\* variant: the flat color is kept as the tint under a texture
TintFor_keepColor(name, hasTex) == colors[name]

\* mat.color.set('#ffffff') under a texture, mat.color.set(colors[name]) else
TintFor(name, hasTex) == IF hasTex THEN WHITE ELSE colors[name]

\* lines 113-139: mat.map = null, then the texture or the flat color, the
\* mapping when there is a map, and the matte parameters. A texture that was
\* the map and whose image is still loading keeps loading, detached.
ApplyVisual(name, node) ==
  LET hasTex == textures[name] # NULL /\ textures[name] # ""
      orphan == IF node.map # NULL /\ node.image = "pending" THEN {node.map} ELSE {}
  IN [node EXCEPT
        !.map = IF hasTex THEN textures[name] ELSE NULL,
        !.image = IF hasTex THEN "pending" ELSE "none",
        !.tint = TintFor(name, hasTex),
        !.repeat = IF hasTex THEN <<Tile(mappings[name].scale), Tile(mappings[name].scale)>>
                             ELSE <<>>,
        !.offset = IF hasTex THEN <<mappings[name].offsetX, mappings[name].offsetY>>
                             ELSE <<>>,
        !.loads = @ + (IF hasTex THEN 1 ELSE 0),
        !.stale = @ \cup orphan,
        !.roughness = 100,
        !.metalness = 0]

\* variant: only the geometry of a removed outline is disposed
DisposeOutline_geometryOnly(node) ==
  [node EXCEPT !.geomDisposed = @ + 1]

\* lines 144-145: outline.geometry.dispose(); outline.material.dispose()
DisposeOutline(node) ==
  [node EXCEPT !.geomDisposed = @ + 1, !.matDisposed = @ + 1]

\* variant: the old outline is left attached when a new pass runs
RemoveOutline_leave(node) == node

\* lines 142-147: remove the outline, dispose it, delete userData.outline
RemoveOutline(node) ==
  IF node.outline
    THEN DisposeOutline([node EXCEPT !.attached = @ - 1, !.detached = @ + 1,
                                     !.outline = FALSE])
    ELSE node

\* variant: every node gets an outline while interaction is on
WantsOutline_any(name) == interactive

\* if (interactive && name === selectedPart)
WantsOutline(name) == interactive /\ name = selectedPart

\* lines 148-156: build the outline of the selected part and attach it
AddOutline(name, node) ==
  IF WantsOutline(name)
    THEN [node EXCEPT !.created = @ + 1, !.attached = @ + 1, !.outline = TRUE]
    ELSE node

\* the body of PART_NAMES.forEach in the Model effect, for a mesh node
ReconcilePart(name, node) ==
  AddOutline(name, RemoveOutline(ApplyVisual(name, CloneMaterial(node))))

\* const obj = nodes[name] || scene.getObjectByName(name); obj?.isMesh
IsMesh(name) == name \in meshes

\* the material fields the pass writes for a part (lines 114-137)
WrittenMaterial(name) ==
  LET n == ApplyVisual(name, CloneMaterial(scene[name]))
  IN [map |-> n.map, tint |-> n.tint,
      roughness |-> n.roughness, metalness |-> n.metalness]

RECURSIVE OriginalFrom(_, _)
\* the asset's shared material after PART_NAMES.forEach from index i on: the
\* writes of a part land on it if the part's mesh still references it
OriginalFrom(i, orig) ==
  IF i > Len(PART_NAMES) THEN orig
  ELSE IF /\ IsMesh(PART_NAMES[i])
          /\ CloneMaterial(scene[PART_NAMES[i]]).material = "original"
         THEN OriginalFrom(i + 1, WrittenMaterial(PART_NAMES[i]))
         ELSE OriginalFrom(i + 1, orig)

\* part `name` comes at or after index i of PART_NAMES
FromIndex(i, name) == \E j \in i..Len(PART_NAMES) : PART_NAMES[j] = name

\* variant: the pass stops at the first part that is no mesh
ReconcileFrom_abort(i, sc) ==
  [name \in PartSet |->
     IF \E j \in i..Len(PART_NAMES) :
          /\ PART_NAMES[j] = name
          /\ \A k \in i..j : IsMesh(PART_NAMES[k])
       THEN ReconcilePart(name, sc[name])
       ELSE sc[name]]

\* PART_NAMES.forEach from index i on: a part that is no mesh is skipped. An
\* iteration reads and writes only the node of its own name, so the scene
\* after the loop is given node by node.
ReconcileFrom(i, sc) ==
  [name \in PartSet |->
     IF FromIndex(i, name) /\ IsMesh(name)
       THEN ReconcilePart(name, sc[name])
       ELSE sc[name]]

\* Model.useEffect: one reconciliation pass over PART_NAMES
Reconcile ==
  /\ ModelMounted
  /\ dirty
  /\ dirty' = FALSE
  /\ scene' = ReconcileFrom(1, scene)
  /\ original' = OriginalFrom(1, original)
  /\ UNCHANGED <<colors, textures, mappings, selectedPart, interactive,
                 meshes, threw, lastEvent, nEvents,
                 nMoves, cropVars, viewVars,
                 mountVars,
                 batchVars>>

\* the material of the loaded asset that all part meshes reference
AssetMaterial ==
  [map |-> AssetMap, tint |-> AssetTint, roughness |-> 50, metalness |-> 100]

\* the node of a part as the asset loader delivers it: a shared, uncloned
\* material with its baked base-color map (loaded with the asset), baked
\* secondary maps and shading parameters, and no outline
AssetNode ==
  [cloned |-> FALSE, clones |-> 0, material |-> "original",
   map |-> AssetMap, image |-> "loaded", tint |-> AssetTint,
   repeat |-> <<100, 100>>, offset |-> <<0, 0>>,
   loads |-> 0, mapsDisposed |-> 0, stale |-> {}, staleLanded |-> 0,
   clonesDisposed |-> 0,
   secondaryMaps |-> {"normalMap", "roughnessMap", "metalnessMap", "aoMap"},
   roughness |-> 50, metalness |-> 100,
   outline |-> FALSE, attached |-> 0,
   created |-> 0, detached |-> 0, geomDisposed |-> 0, matDisposed |-> 0]

\* asset variants: the complete shoe, and one whose first part is no mesh
AssetVariants == {PartSet, PartSet \ {"logo"}}

Init ==
  /\ colors = initialColors
  /\ textures = initialTextures
  /\ mappings = initialMappings
  /\ selectedPart = NULL
  /\ interactive = TRUE
  /\ meshes \in AssetVariants
  /\ scene = [name \in PartSet |-> AssetNode]
  /\ dirty = TRUE
  /\ threw = FALSE
  /\ lastEvent = [kind |-> "mount"]
  /\ nMoves = 0
  /\ pending = <<>>
  /\ batch = <<>>
  /\ flushed = <<>>
  /\ listeners = 1
  /\ nMounts = 1
  /\ original = AssetMaterial
  /\ gltf = "ready"
  /\ view = "model"
  /\ imageSrc = NULL
  /\ showCrop = FALSE
  /\ croppedAreaPixels = <<>>
  /\ cropJob = <<>>
  /\ nEvents = 0

\* the names a pointer hit can carry: a part can be hit only if the asset has
\* a mesh of that name, and nothing can be hit before the model is mounted
HitNames ==
  IF ModelMounted THEN {n \in NodeNames : n \in PartSet => n \in meshes} ELSE {}

Next ==
  \/ \E data \in MessageData : handler(data)
  \/ toggleInteractive
  \/ \E hit \in HitNames : onPointerDown(hit)
  \/ onPointerMissed
  \/ Reconcile

Spec == Init /\ [][Next]_vars

\* ---------------------------------------------------- texture image loads
\* loader.load (line 117) returns the Texture at once and fetches its image
\* in the background; the pass passes no onLoad or onError callback, so a
\* settled load touches only the Texture object it was started for.

\* the load of the material's current map succeeds: the texture gets its image
LoadDone(p) ==
  /\ p \in meshes
  /\ scene[p].map # NULL
  /\ scene[p].image = "pending"
  /\ scene' = [scene EXCEPT ![p].image = "loaded"]
  /\ UNCHANGED <<colors, textures, mappings, selectedPart, interactive,
                 meshes, dirty, threw, lastEvent, nEvents,
                 nMoves, cropVars, viewVars, original,
                 mountVars,
                 batchVars>>

\* the load of the material's current map fails: the texture stays image-less
LoadFail(p) ==
  /\ p \in meshes
  /\ scene[p].map # NULL
  /\ scene[p].image = "pending"
  /\ scene' = [scene EXCEPT ![p].image = "failed"]
  /\ UNCHANGED <<colors, textures, mappings, selectedPart, interactive,
                 meshes, dirty, threw, lastEvent, nEvents,
                 nMoves, cropVars, viewVars, original,
                 mountVars,
                 batchVars>>

\* variant: a load that succeeds puts its texture on the material, whether
\* or not the material still references it
StaleLoadDone_overwrite(p, u) ==
  /\ u \in scene[p].stale
  /\ scene' = [scene EXCEPT ![p].stale = @ \ {u}, ![p].staleLanded = @ + 1,
                            ![p].map = u, ![p].image = "loaded"]
  /\ UNCHANGED <<colors, textures, mappings, selectedPart, interactive,
                 meshes, dirty, threw, lastEvent, nEvents,
                 nMoves, cropVars, viewVars, original,
                 mountVars,
                 batchVars>>

\* the load succeeds for a texture a later pass took off the material: the
\* image lands on that detached texture only
StaleLoadDone(p, u) ==
  /\ u \in scene[p].stale
  /\ scene' = [scene EXCEPT ![p].stale = @ \ {u}, ![p].staleLanded = @ + 1]
  /\ UNCHANGED <<colors, textures, mappings, selectedPart, interactive,
                 meshes, dirty, threw, lastEvent, nEvents,
                 nMoves, cropVars, viewVars, original,
                 mountVars,
                 batchVars>>

\* the load fails for a texture a later pass took off the material
StaleLoadFail(p, u) ==
  /\ u \in scene[p].stale
  /\ scene' = [scene EXCEPT ![p].stale = @ \ {u}]
  /\ UNCHANGED <<colors, textures, mappings, selectedPart, interactive,
                 meshes, dirty, threw, lastEvent, nEvents,
                 nMoves, cropVars, viewVars, original,
                 mountVars,
                 batchVars>>

\* messages that recolor the midsole or give it one of two images
LoadImages == {"blob:a", "blob:b"}
LoadMessages ==
  [kind : {"object"}, part : {<<"midsole">>}, color : {<<"#ff0000">>},
   mapping : {<<>>}, image : {<<>>}]
  \cup
  [kind : {"object"}, part : {<<"midsole">>}, color : {<<>>},
   mapping : {<<>>}, image : {<<u>> : u \in LoadImages}]

NextLoads ==
  \/ \E data \in LoadMessages : handler(data)
  \/ toggleInteractive
  \/ Reconcile
  \/ \E p \in MsgParts : LoadDone(p)
  \/ \E p \in MsgParts : LoadFail(p)
  \/ \E p \in MsgParts, u \in LoadImages : StaleLoadDone(p, u)
  \/ \E p \in MsgParts, u \in LoadImages : StaleLoadFail(p, u)

SpecLoads == Init /\ [][NextLoads]_vars

\* ------------------------------------------------- mapping values in flight
\* mapping objects a host may send: complete, without offsetX, with scale 0,
\* and with a negative scale
FullMapping == [offsetX |-> 25, offsetY |-> -10, scale |-> 200]
PartialMapping == [offsetY |-> -10, scale |-> 200]
ZeroScaleMapping == [offsetX |-> 0, offsetY |-> 0, scale |-> 0]
NegativeScaleMapping == [offsetX |-> 0, offsetY |-> 0, scale |-> -100]

\* mapping messages go to the midsole, which gets no image here; the laces
\* get an image and can then be selected and moved with the sliders
MappingMessages ==
  [kind : {"object"}, part : {<<"midsole">>}, color : {<<>>},
   mapping : {<<m>> : m \in {FullMapping, PartialMapping, ZeroScaleMapping,
                             NegativeScaleMapping}},
   image : {<<>>}]
  \cup
  [kind : {"object"}, part : {<<"laces">>}, color : {<<>>},
   mapping : {<<>>}, image : {<<"blob:a">>}]

NextMappings ==
  \/ \E data \in MappingMessages : handler(data)
  \/ \E hit \in HitNames : onPointerDown(hit)
  \/ \E key \in SliderKeys : \E value \in SliderValues(key) : updateMapping(key, value)
  \/ Reconcile

SpecMappings == Init /\ [][NextMappings]_vars

\* ------------------------------------------------- asset load and teardown
\* useGLTF resolves: Suspense swaps the fallback for Model, whose effect runs
AssetLoaded ==
  /\ gltf = "loading" /\ view = "loading"
  /\ gltf' = "ready"
  /\ view' = "model"
  /\ dirty' = TRUE
  /\ UNCHANGED <<colors, textures, mappings, selectedPart, interactive,
                 meshes, scene, threw, lastEvent, nEvents, nMoves, cropVars, original,
                 mountVars,
                 batchVars>>

\* useGLTF throws the load error while Model renders; Suspense handles only
\* pending loads and no component of the page is an error boundary, so the
\* error leaves the page's tree and React unmounts it
FailedView == "crashed"

\* useGLTF rejects (network or parse error)
AssetFailed ==
  /\ gltf = "loading" /\ view = "loading"
  /\ gltf' = "failed"
  /\ view' = FailedView
  /\ UNCHANGED <<colors, textures, mappings, selectedPart, interactive,
                 meshes, scene, dirty, threw, lastEvent, nEvents, nMoves,
                 cropVars, original,
                 mountVars,
                 batchVars>>

\* variant: the effect's cleanup leaves the listener registered
removeEventListener_none(n) == n

\* window.removeEventListener('message', handler) for a registered handler
removeEventListener(n) == n - 1

\* window.addEventListener('message', handler) with the handler closure the
\* effect has just made
addEventListener(n) == n + 1

\* the page is left: Page and Model unmount. The message effect's cleanup
\* removes the listener; Model's effect returns no cleanup, and the scene
\* stays in useGLTF's cache as the last pass left it.
unmountPage ==
  /\ Deliver([kind |-> "unmount"])
  /\ view' = "unmounted"
  /\ listeners' = removeEventListener(listeners)
  /\ threw' = FALSE
  /\ UNCHANGED <<colors, textures, mappings, selectedPart, interactive,
                 meshes, scene, dirty, nMoves, cropVars, gltf, original,
                 nMounts,
                 batchVars>>

\* the page right after its first render: the asset is being fetched and the
\* Suspense fallback is shown
InitView ==
  /\ colors = initialColors
  /\ textures = initialTextures
  /\ mappings = initialMappings
  /\ selectedPart = NULL
  /\ interactive = TRUE
  /\ meshes \in AssetVariants
  /\ scene = [name \in PartSet |-> AssetNode]
  /\ dirty = FALSE
  /\ threw = FALSE
  /\ lastEvent = [kind |-> "mount"]
  /\ nMoves = 0
  /\ pending = <<>>
  /\ batch = <<>>
  /\ flushed = <<>>
  /\ listeners = 1
  /\ nMounts = 1
  /\ original = AssetMaterial
  /\ imageSrc = NULL
  /\ showCrop = FALSE
  /\ croppedAreaPixels = <<>>
  /\ cropJob = <<>>
  /\ gltf = "loading"
  /\ view = "loading"
  /\ nEvents = 0

NextView ==
  \/ AssetLoaded
  \/ AssetFailed
  \/ unmountPage
  \/ \E data \in LoadMessages : handler(data)
  \/ toggleInteractive
  \/ \E hit \in HitNames : onPointerDown(hit)
  \/ onPointerMissed
  \/ Reconcile

SpecView == InitView /\ [][NextView]_vars

\* ------------------------------------------------- the message subscription
\* Page mounts: its state starts from the initial values and its mount effect
\* (deps []) registers the message handler. useGLTF caches the asset, so a
\* page mounted again finds the scene as the last pass left it.
mountPage ==
  /\ view = "unmounted"
  /\ nMounts < MaxMounts
  /\ nMounts' = nMounts + 1
  /\ listeners' = addEventListener(listeners)
  /\ colors' = initialColors
  /\ textures' = initialTextures
  /\ mappings' = initialMappings
  /\ selectedPart' = NULL
  /\ interactive' = TRUE
  /\ imageSrc' = NULL
  /\ showCrop' = FALSE
  /\ croppedAreaPixels' = <<>>
  /\ cropJob' = <<>>
  /\ gltf' = IF gltf = "ready" THEN "ready" ELSE "loading"
  /\ view' = IF gltf = "ready" THEN "model" ELSE "loading"
  /\ dirty' = (gltf = "ready")
  /\ threw' = FALSE
  /\ lastEvent' = [kind |-> "mount"]
  /\ UNCHANGED <<meshes, scene, original, nEvents, nMoves,
                 batchVars>>

\* the host posts a message while window has no 'message' listener of the
\* page: nothing runs
messageDropped(data) ==
  /\ listeners = 0
  /\ nEvents < MaxEvents
  /\ nEvents' = nEvents + 1
  /\ lastEvent' = [kind |-> "message", data |-> data]
  /\ UNCHANGED <<colors, textures, mappings, selectedPart, interactive,
                 meshes, scene, dirty, threw, nMoves, cropVars, viewVars,
                 original, mountVars,
                 batchVars>>

\* before the page is first mounted: nothing is requested or registered
InitMount ==
  /\ colors = initialColors
  /\ textures = initialTextures
  /\ mappings = initialMappings
  /\ selectedPart = NULL
  /\ interactive = TRUE
  /\ meshes \in AssetVariants
  /\ scene = [name \in PartSet |-> AssetNode]
  /\ dirty = FALSE
  /\ threw = FALSE
  /\ lastEvent = [kind |-> "start"]
  /\ nMoves = 0
  /\ pending = <<>>
  /\ batch = <<>>
  /\ flushed = <<>>
  /\ listeners = 0
  /\ nMounts = 0
  /\ original = AssetMaterial
  /\ imageSrc = NULL
  /\ showCrop = FALSE
  /\ croppedAreaPixels = <<>>
  /\ cropJob = <<>>
  /\ gltf = "idle"
  /\ view = "unmounted"
  /\ nEvents = 0

NextMount ==
  \/ mountPage
  \/ unmountPage
  \/ AssetLoaded
  \/ \E data \in LoadMessages : handler(data)
  \/ \E data \in LoadMessages : messageDropped(data)
  \/ toggleInteractive
  \/ Reconcile

SpecMount == InitMount /\ [][NextMount]_vars

\* ------------------------------------------------------------- cropping
\* An image is known by its url; its pixel at column a, row b is named
\* <<a, b>>, so that a copy can be compared with its source pixel by pixel.
\* A canvas pixel nothing was drawn to is "transparent".
SmallImage == "data:small"
PhotoImage == "data:photo"
ImageWidth(url) == IF url = PhotoImage THEN 400 ELSE SrcW
ImageHeight(url) == IF url = PhotoImage THEN 300 ELSE SrcH
InImage(url, a, b) ==
  a \in 0..(ImageWidth(url) - 1) /\ b \in 0..(ImageHeight(url) - 1)

\* ctx.drawImage(image, sx, sy, sw, sh, dx, dy, dw, dh) onto a cleared canvas
\* of cw x ch pixels: destination pixel (i, j) inside the destination
\* rectangle takes the source pixel the rectangle maps it to, if the image has
\* one there
drawImage(url, sx, sy, sw, sh, dx, dy, dw, dh, cw, ch) ==
  [ij \in (0..(cw - 1)) \X (0..(ch - 1)) |->
     LET i == ij[1]
         j == ij[2]
         a == sx + ((i - dx) * sw) \div dw
         b == sy + ((j - dy) * sh) \div dh
     IN IF /\ i \in dx..(dx + dw - 1) /\ j \in dy..(dy + dh - 1)
           /\ InImage(url, a, b)
          THEN <<a, b>>
          ELSE "transparent"]

\* variant: the copy starts at the corner of the source image
SourceOrigin_corner(pixelCrop) == <<0, 0>>

\* the source corner handed to drawImage: pixelCrop.x, pixelCrop.y
SourceOrigin(pixelCrop) == <<pixelCrop.x, pixelCrop.y>>

\* getCroppedImg, lines 700-713: a canvas of the region's size, and the
\* region of the image drawn onto it at (0, 0) in the same size
CropCanvas(url, pixelCrop) ==
  [width |-> pixelCrop.width,
   height |-> pixelCrop.height,
   px |-> drawImage(url, SourceOrigin(pixelCrop)[1], SourceOrigin(pixelCrop)[2],
                    pixelCrop.width, pixelCrop.height,
                    0, 0, pixelCrop.width, pixelCrop.height,
                    pixelCrop.width, pixelCrop.height)]

\* the url URL.createObjectURL makes for the blob of a crop
CropUrl == "blob:crop"

\* an applyCrop call is between its await and its completion
CropInFlight == cropJob # <<>> /\ cropJob[1].phase # "done"

\* the trailing setters of applyCrop and the body of cancelCrop
CloseDialog ==
  /\ showCrop' = FALSE
  /\ imageSrc' = NULL

\* onFileChange: a file is picked in the HUD of the selected part and read
\* as a data url; the reader's onload opens the crop dialog
onFileChange(url) ==
  /\ interactive /\ selectedPart # NULL
  /\ Deliver([kind |-> "file", url |-> url])
  /\ imageSrc' = url
  /\ showCrop' = TRUE
  /\ threw' = FALSE
  /\ UNCHANGED <<colors, textures, mappings, selectedPart, interactive,
                 meshes, scene, dirty, nMoves, croppedAreaPixels, cropJob, viewVars, original,
                 mountVars,
                 batchVars>>

\* onCropComplete: the Cropper of the open dialog reports the region
onCropComplete(area) ==
  /\ showCrop /\ imageSrc # NULL
  /\ Deliver([kind |-> "cropcomplete", area |-> area])
  /\ croppedAreaPixels' = <<area>>
  /\ threw' = FALSE
  /\ UNCHANGED <<colors, textures, mappings, selectedPart, interactive,
                 meshes, scene, dirty, nMoves, imageSrc, showCrop, cropJob, viewVars, original,
                 mountVars,
                 batchVars>>

\* cancelCrop: the Cancel button of the open dialog
cancelCrop ==
  /\ showCrop /\ imageSrc # NULL
  /\ Deliver([kind |-> "cancel"])
  /\ CloseDialog
  /\ threw' = FALSE
  /\ UNCHANGED <<colors, textures, mappings, selectedPart, interactive,
                 meshes, scene, dirty, nMoves, croppedAreaPixels, cropJob, viewVars, original,
                 mountVars,
                 batchVars>>

\* applyCrop up to its await: the Apply button of the open dialog. With an
\* image, a region and a selected part the crop starts for that part;
\* otherwise the dialog closes at once. One crop is in flight at a time.
applyCrop ==
  /\ showCrop /\ imageSrc # NULL
  /\ ~CropInFlight
  /\ Deliver([kind |-> "apply"])
  /\ threw' = FALSE
  /\ IF croppedAreaPixels # <<>> /\ selectedPart # NULL
       THEN /\ cropJob' = <<[src |-> imageSrc, area |-> croppedAreaPixels[1],
                             part |-> selectedPart, phase |-> "decoding",
                             canvas |-> <<>>]>>
            /\ UNCHANGED <<imageSrc, showCrop>>
       ELSE /\ CloseDialog
            /\ UNCHANGED cropJob
  /\ UNCHANGED <<colors, textures, mappings, selectedPart, interactive,
                 meshes, scene, dirty, nMoves, croppedAreaPixels, viewVars, original,
                 mountVars,
                 batchVars>>

\* getCroppedImg: img.onload, then the canvas is drawn and toBlob is asked
CropImageLoaded ==
  /\ cropJob # <<>> /\ cropJob[1].phase = "decoding"
  /\ cropJob' = <<[cropJob[1] EXCEPT
                     !.phase = "encoding",
                     !.canvas = <<CropCanvas(cropJob[1].src, cropJob[1].area)>>]>>
  /\ UNCHANGED <<colors, textures, mappings, selectedPart, interactive,
                 meshes, scene, dirty, threw, lastEvent, nEvents, nMoves,
                 imageSrc, showCrop, croppedAreaPixels, viewVars, original,
                 mountVars,
                 batchVars>>

\* variant: a failed crop clears the texture of the part
CropFailed_clearTexture(part, src) == Put(textures, part, NULL)

\* variant: a failed crop stores the picked image as the texture
CropFailed_storeSource(part, src) == Put(textures, part, src)

\* the texture map after a crop failed: the catch block sets nothing
CropFailed(part, src) == textures

\* getCroppedImg: img.onerror
CropImageError ==
  /\ cropJob # <<>> /\ cropJob[1].phase = "decoding"
  /\ textures' = CropFailed(cropJob[1].part, cropJob[1].src)
  /\ dirty' = (dirty \/ textures' # textures)
  /\ cropJob' = <<>>
  /\ CloseDialog
  /\ UNCHANGED <<colors, mappings, selectedPart, interactive,
                 meshes, scene, threw, lastEvent, nEvents, nMoves,
                 croppedAreaPixels, viewVars, original,
                 mountVars,
                 batchVars>>

\* getCroppedImg: toBlob hands over null, reject(new Error('Canvas is empty'))
CropBlobNull ==
  /\ cropJob # <<>> /\ cropJob[1].phase = "encoding"
  /\ textures' = CropFailed(cropJob[1].part, cropJob[1].src)
  /\ dirty' = (dirty \/ textures' # textures)
  /\ cropJob' = <<>>
  /\ CloseDialog
  /\ UNCHANGED <<colors, mappings, selectedPart, interactive,
                 meshes, scene, threw, lastEvent, nEvents, nMoves,
                 croppedAreaPixels, viewVars, original,
                 mountVars,
                 batchVars>>

\* variant: the crop goes to the part selected when it completes
CropTarget_current(job) == selectedPart

\* [selectedPart] in the updater of line 554: the selectedPart of the render
\* whose applyCrop closure was invoked
CropTarget(job) == job.part

\* getCroppedImg resolves with the blob; applyCrop makes a url for it, sets
\* it as the texture of the part it was started for, and closes the dialog
CropBlobReady ==
  /\ cropJob # <<>> /\ cropJob[1].phase = "encoding"
  /\ textures' = Put(textures, CropTarget(cropJob[1]), CropUrl)
  /\ dirty' = TRUE
  /\ cropJob' = <<[cropJob[1] EXCEPT !.phase = "done"]>>
  /\ CloseDialog
  /\ UNCHANGED <<colors, mappings, selectedPart, interactive,
                 meshes, scene, threw, lastEvent, nEvents, nMoves,
                 croppedAreaPixels, viewVars, original,
                 mountVars,
                 batchVars>>

\* regions that lie within the small image
Regions ==
  {r \in [x : 0..(SrcW - 1), y : 0..(SrcH - 1), width : 1..SrcW, height : 1..SrcH] :
     r.x + r.width <= SrcW /\ r.y + r.height <= SrcH}

\* the region of the 400 x 300 photo
PhotoRegion == [x |-> 50, y |-> 50, width |-> 100, height |-> 100]

\* regions the Cropper reports while the dialog is open
CropInputs == {[x |-> 1, y |-> 1, width |-> 2, height |-> 2]}

\* the crop dialog is open on a picked image with a region chosen: the state
\* after the midsole was clicked, a pass ran, a file was picked and the
\* Cropper reported a region
InitCrop ==
  /\ colors = initialColors
  /\ textures = initialTextures
  /\ mappings = initialMappings
  /\ selectedPart = "midsole"
  /\ interactive = TRUE
  /\ meshes = PartSet
  /\ scene = ReconcileFrom(1, [name \in PartSet |-> AssetNode])
  /\ dirty = FALSE
  /\ threw = FALSE
  /\ \E pick \in ({SmallImage} \X Regions) \cup {<<PhotoImage, PhotoRegion>>} :
       /\ imageSrc = pick[1]
       /\ croppedAreaPixels = <<pick[2]>>
       /\ lastEvent = [kind |-> "cropcomplete", area |-> pick[2]]
  /\ showCrop = TRUE
  /\ cropJob = <<>>
  /\ nMoves = 0
  /\ pending = <<>>
  /\ batch = <<>>
  /\ flushed = <<>>
  /\ listeners = 1
  /\ nMounts = 1
  /\ original = AssetMaterial
  /\ gltf = "ready"
  /\ view = "model"
  /\ nEvents = 0

NextCrop ==
  \/ applyCrop
  \/ cancelCrop
  \/ \E area \in CropInputs : onCropComplete(area)
  \/ \E url \in {SmallImage} : onFileChange(url)
  \/ CropImageLoaded
  \/ CropImageError
  \/ CropBlobNull
  \/ CropBlobReady
  \/ Reconcile

SpecCrop == InitCrop /\ [][NextCrop]_vars

\* ------------------------------------ the selection while a crop is running
\* the crop dialog has just been opened for the midsole on the small image:
\* croppedAreaPixels is still null, or holds the region the Cropper reported
InitApply ==
  /\ colors = initialColors
  /\ textures = initialTextures
  /\ mappings = initialMappings
  /\ selectedPart = "midsole"
  /\ interactive = TRUE
  /\ meshes = PartSet
  /\ scene = ReconcileFrom(1, [name \in PartSet |-> AssetNode])
  /\ dirty = FALSE
  /\ threw = FALSE
  /\ imageSrc = SmallImage
  /\ showCrop = TRUE
  /\ croppedAreaPixels \in Opt(CropInputs)
  /\ lastEvent = [kind |-> "file", url |-> SmallImage]
  /\ cropJob = <<>>
  /\ nMoves = 0
  /\ pending = <<>>
  /\ batch = <<>>
  /\ flushed = <<>>
  /\ listeners = 1
  /\ nMounts = 1
  /\ original = AssetMaterial
  /\ gltf = "ready"
  /\ view = "model"
  /\ nEvents = 0

NextApply ==
  \/ applyCrop
  \/ cancelCrop
  \/ \E area \in CropInputs : onCropComplete(area)
  \/ toggleInteractive
  \/ \E hit \in HitNames : onPointerDown(hit)
  \/ onPointerMissed
  \/ CropImageLoaded
  \/ CropImageError
  \/ CropBlobNull
  \/ CropBlobReady
  \/ Reconcile

SpecApply == InitApply /\ [][NextApply]_vars

\* ------------------------------------------------ the state update queue
\* A setter called with an updater function queues the function; the next
\* render of Page runs the queued updaters in order, each on the result of
\* the one before. An updater of the handler is {...prev, [key]: val} on one
\* of the three maps.
Updater(map, key, val) == [map |-> map, key |-> key, val |-> val]

\* the setters one `if (field) set...` statement of the handler calls
FieldUpdaters(field, part, msg) ==
  CASE field = "color" ->
         IF TruthyStr(msg.color)
           THEN <<Updater("colors", part, msg.color[1]), Updater("textures", part, NULL)>>
           ELSE <<>>
    [] field = "mapping" ->
         IF TruthyObj(msg.mapping)
           THEN <<Updater("mappings", part, msg.mapping[1])>>
           ELSE <<>>
    [] field = "image" ->
         IF TruthyStr(msg.image)
           THEN <<Updater("textures", part, msg.image[1])>>
           ELSE <<>>

\* the setters the handler calls for one message, in statement order
Updaters(order, part, msg) ==
  FieldUpdaters(order[1], part, msg) \o FieldUpdaters(order[2], part, msg)
    \o FieldUpdaters(order[3], part, msg)

\* variant: the setter is given an object built from the state of the render
\* the closure was made in, setColors({...colors, [part]: color})
RunUpdater_fromClosure(acc, base, u) ==
  [acc EXCEPT ![u.map] = Put(base[u.map], u.key, u.val)]

\* the updater (prev) => ({...prev, [key]: val}) run on the accumulated state
RunUpdater(acc, base, u) ==
  [acc EXCEPT ![u.map] = Put(acc[u.map], u.key, u.val)]

RECURSIVE RunQueue(_, _, _)
\* React processes the queue of a render: updaters from index i on
RunQueue(i, acc, base) ==
  IF i > Len(pending) THEN acc
  ELSE RunQueue(i + 1, RunUpdater(acc, base, pending[i]), base)

\* Page.handler when the render is not immediate: its setters are queued
handlerQueued(data) ==
  /\ listeners > 0
  /\ Deliver([kind |-> "message", data |-> data])
  /\ batch' = Append(batch, data)
  /\ UNCHANGED <<colors, textures, mappings, selectedPart, interactive,
                 meshes, scene, dirty, nMoves, cropVars, viewVars, original,
                 mountVars, flushed>>
  /\ IF DestructureThrows(data)
       THEN /\ threw' = TRUE
            /\ UNCHANGED pending
       ELSE LET msg == Destructure(data) IN
            /\ threw' = FALSE
            /\ pending' = IF KnownPart(msg)
                             THEN pending \o Updaters(HandlerOrder, msg.part[1], msg)
                             ELSE pending

\* Page renders: the queued updaters give the new colors, textures and
\* mappings, and the effect of Model is due if a map has a new identity
render ==
  /\ PageMounted
  /\ batch # <<>>
  /\ LET st == RunQueue(1, Cust(colors, textures, mappings),
                        Cust(colors, textures, mappings)) IN
       /\ colors' = st.colors
       /\ textures' = st.textures
       /\ mappings' = st.mappings
  /\ dirty' = (dirty \/ pending # <<>>)
  /\ pending' = <<>>
  /\ flushed' = batch
  /\ batch' = <<>>
  /\ UNCHANGED <<selectedPart, interactive, meshes, scene, threw, lastEvent,
                 nEvents, nMoves, cropVars, viewVars, original, mountVars>>

\* messages for two parts with any of two colors, an image and a mapping, and
\* one message that makes the handler throw
BatchColors == {"#ff0000", "#00ff00"}
BatchMessages ==
  [kind : {"object"}, part : {<<p>> : p \in MsgParts}, color : Opt(BatchColors),
   mapping : Opt(MappingInputs), image : Opt({"blob:a"})]
  \cup {[kind |-> "null"]}

NextBatch ==
  \/ \E data \in BatchMessages : handlerQueued(data)
  \/ render
  \/ Reconcile

SpecBatch == Init /\ [][NextBatch]_vars

\* ------------------------------------------- everything that sets a texture
\* messages for the midsole with a color (the initial one or another), an
\* image, both or neither
TextureMessages ==
  [kind : {"object"}, part : {<<"midsole">>},
   color : Opt({WHITE, "#ff0000"}), mapping : {<<>>}, image : Opt({"blob:a"})]

\* Page with the crop dialog open: messages, the crop, the sliders, pointer
\* events and the toggle
NextTextures ==
  \/ \E data \in TextureMessages : handler(data)
  \/ applyCrop
  \/ cancelCrop
  \/ CropImageLoaded
  \/ CropImageError
  \/ CropBlobNull
  \/ CropBlobReady
  \/ \E key \in SliderKeys : \E value \in SliderValues(key) : updateMapping(key, value)
  \/ toggleInteractive
  \/ \E hit \in HitNames : onPointerDown(hit)
  \/ onPointerMissed
  \/ Reconcile

SpecTextures == InitApply /\ [][NextTextures]_vars

\* --------------------------------------------- the pass over partial assets
\* parts an asset may lack: the first and the last of PART_NAMES and one
\* between them
AbsentCandidates == {"logo", "midsole", "laces"}

\* one asset for every subset of the candidates that is absent from it
AllAssetVariants == {PartSet \ absent : absent \in SUBSET AbsentCandidates}

InitAssets ==
  /\ colors = initialColors
  /\ textures = initialTextures
  /\ mappings = initialMappings
  /\ selectedPart = NULL
  /\ interactive = TRUE
  /\ meshes \in AllAssetVariants
  /\ scene = [name \in PartSet |-> AssetNode]
  /\ dirty = TRUE
  /\ threw = FALSE
  /\ lastEvent = [kind |-> "mount"]
  /\ nMoves = 0
  /\ pending = <<>>
  /\ batch = <<>>
  /\ flushed = <<>>
  /\ listeners = 1
  /\ nMounts = 1
  /\ original = AssetMaterial
  /\ gltf = "ready"
  /\ view = "model"
  /\ imageSrc = NULL
  /\ showCrop = FALSE
  /\ croppedAreaPixels = <<>>
  /\ cropJob = <<>>
  /\ nEvents = 0

SpecAssets == InitAssets /\ [][Next]_vars

\* ================================================================== claims
\* the step delivers one host message / its e.data
IsMsgStep == nEvents' = nEvents + 1 /\ lastEvent'.kind = "message"
IsPassStep == dirty /\ ~dirty'

\* an object message for a part of PART_NAMES
ForKnownPart(data) ==
  data.kind = "object" /\ data.part # <<>> /\ includes(PART_NAMES, data.part[1])

\* the last event is a message that is an object
LastIsObjectMsg == lastEvent.kind = "message" /\ lastEvent.data.kind = "object"

\* ---------------------------------------------------------------------- C1
\* C1: a message whose part is present but is none of the eight PART_NAMES,
\* whatever color, mapping or image it carries, raises no error and leaves
\* colors, textures, mappings, selectedPart and interactive as they were.
C1_UnknownPartIgnored ==
  [][(/\ IsMsgStep
      /\ lastEvent'.data.kind = "object"
      /\ lastEvent'.data.part # <<>>
      /\ ~includes(PART_NAMES, lastEvent'.data.part[1]))
     => (UNCHANGED custVars /\ ~threw')]_vars

\* a "wheel" message carrying all three fields was handled in a state that an
\* earlier message had customized
C1_Witness ==
  /\ LastIsObjectMsg
  /\ lastEvent.data.part = <<"wheel">>
  /\ TruthyStr(lastEvent.data.color)
  /\ TruthyObj(lastEvent.data.mapping)
  /\ TruthyStr(lastEvent.data.image)
  /\ textures["midsole"] = "blob:a"
  /\ ~threw

\* ---------------------------------------------------------------------- C2
\* e.data is malformed: not an object, or an object without a part
Malformed(data) == data.kind # "object" \/ data.part = <<>>

\* C2: a malformed message (data null, undefined, not an object, or without a
\* part) is dropped silently: the handler does not throw and the
\* customization state is unchanged.
C2_MalformedDropped ==
  [][(IsMsgStep /\ Malformed(lastEvent'.data))
     => (~threw' /\ UNCHANGED custVars)]_vars

\* ---------------------------------------------------------------------- C3
\* a message that sets a color and no image
ColorOnly(data) ==
  ForKnownPart(data) /\ TruthyStr(data.color) /\ ~TruthyStr(data.image)

\* C3: for a known part p that has a texture, a message {part: p, color: c}
\* gives colors[p] = c and textures[p] = null, and the reconciliation pass
\* that follows the message leaves p's material with map = null and tint = c.
C3_ColorSupersedesTexture ==
  [][/\ (/\ IsMsgStep
          /\ ColorOnly(lastEvent'.data)
          /\ textures[lastEvent'.data.part[1]] # NULL)
         => (/\ colors'[lastEvent'.data.part[1]] = lastEvent'.data.color[1]
             /\ textures'[lastEvent'.data.part[1]] = NULL)
     /\ (/\ IsPassStep
          /\ LastIsObjectMsg
          /\ ColorOnly(lastEvent.data)
          /\ lastEvent.data.part[1] \in meshes)
         => (/\ scene'[lastEvent.data.part[1]].map = NULL
             /\ scene'[lastEvent.data.part[1]].tint = lastEvent.data.color[1])]_vars

\* a color message for the midsole was handled and reconciled, after a pass had
\* loaded a texture for that part
C3_Witness ==
  /\ LastIsObjectMsg
  /\ ColorOnly(lastEvent.data)
  /\ lastEvent.data.part = <<"midsole">>
  /\ ~dirty
  /\ scene["midsole"].loads > 0
  /\ scene["midsole"].map = NULL
  /\ scene["midsole"].tint = "#ff0000"
  /\ textures["midsole"] = NULL

\* ---------------------------------------------------------------------- C4
\* a message that sets an image and no color
ImageOnly(data) ==
  ForKnownPart(data) /\ TruthyStr(data.image) /\ ~TruthyStr(data.color)

\* C4: a message {part: p, image: u} gives textures[p] = u and keeps colors[p]
\* (so a color c set by an earlier message is still stored), and the pass that
\* follows shows the image with a white tint.
C4_TextureKeepsColor ==
  [][/\ (IsMsgStep /\ ImageOnly(lastEvent'.data))
         => (/\ textures'[lastEvent'.data.part[1]] = lastEvent'.data.image[1]
             /\ colors' = colors)
     /\ (/\ IsPassStep
          /\ LastIsObjectMsg
          /\ ImageOnly(lastEvent.data)
          /\ lastEvent.data.part[1] \in meshes)
         => (/\ scene'[lastEvent.data.part[1]].map = lastEvent.data.image[1]
             /\ scene'[lastEvent.data.part[1]].tint = WHITE
             /\ colors[lastEvent.data.part[1]] = colors'[lastEvent.data.part[1]])]_vars

\* the midsole was colored red by a message, then given an image, and reconciled
C4_Witness ==
  /\ LastIsObjectMsg
  /\ ImageOnly(lastEvent.data)
  /\ lastEvent.data.part = <<"midsole">>
  /\ ~dirty
  /\ colors["midsole"] = "#ff0000"
  /\ textures["midsole"] = "blob:a"
  /\ scene["midsole"].map = "blob:a"
  /\ scene["midsole"].tint = WHITE

\* ---------------------------------------------------------------------- C5
\* C5: one message for a known part p with a color c and an image u (and
\* possibly a mapping m) is applied color first, image last: it ends with
\* colors[p] = c, textures[p] = u and, when m is present, mappings[p] = m.
C5_ColorMappingImageOrder ==
  [][(/\ IsMsgStep
      /\ ForKnownPart(lastEvent'.data)
      /\ TruthyStr(lastEvent'.data.color)
      /\ TruthyStr(lastEvent'.data.image))
     => (/\ colors'[lastEvent'.data.part[1]] = lastEvent'.data.color[1]
         /\ textures'[lastEvent'.data.part[1]] = lastEvent'.data.image[1]
         /\ (TruthyObj(lastEvent'.data.mapping)
               => mappings'[lastEvent'.data.part[1]] = lastEvent'.data.mapping[1]))]_vars

\* a message with color, mapping and image for the logo was handled
C5_Witness ==
  /\ LastIsObjectMsg
  /\ lastEvent.data.part = <<"logo">>
  /\ lastEvent.data.color = <<"#ff0000">>
  /\ lastEvent.data.image = <<"blob:a">>
  /\ TruthyObj(lastEvent.data.mapping)
  /\ colors["logo"] = "#ff0000"
  /\ textures["logo"] = "blob:a"
  /\ mappings["logo"] = lastEvent.data.mapping[1]

\* ---------------------------------------------------------------------- C6
\* the six orders in which the three field statements can run
FieldOrders ==
  {<<"color", "mapping", "image">>, <<"color", "image", "mapping">>,
   <<"mapping", "color", "image">>, <<"mapping", "image", "color">>,
   <<"image", "color", "mapping">>, <<"image", "mapping", "color">>}

\* position of a field in an order
PosIn(order, field) == CHOOSE i \in 1..3 : order[i] = field

\* the step handles a message with color, mapping and image for a known part
IsFullMsgStep ==
  /\ IsMsgStep
  /\ ForKnownPart(lastEvent'.data)
  /\ TruthyStr(lastEvent'.data.color)
  /\ TruthyObj(lastEvent'.data.mapping)
  /\ TruthyStr(lastEvent'.data.image)

\* the customization state the message of this step yields under an order
ResultUnder(order) ==
  ApplyFields(Cust(colors, textures, mappings), order,
              lastEvent'.data.part[1], Destructure(lastEvent'.data))

\* C6 (as stated): for a message with color, mapping and image, every order
\* of the three writes yields the final state the handler produces.
C6_AnyOrderSameState ==
  [][IsFullMsgStep
     => \A order \in FieldOrders :
          ResultUnder(order) = Cust(colors', textures', mappings')]_vars

\* C6 (amended): the orders that write the color before the image all yield
\* the handler's final state (wherever the mapping write falls); an order that
\* writes the image before the color ends with textures[p] = null instead.
C6_ColorBeforeImageSameState ==
  [][IsFullMsgStep
     => \A order \in FieldOrders :
          IF PosIn(order, "color") < PosIn(order, "image")
            THEN ResultUnder(order) = Cust(colors', textures', mappings')
            ELSE /\ ResultUnder(order).textures[lastEvent'.data.part[1]] = NULL
                 /\ ResultUnder(order) # Cust(colors', textures', mappings')]_vars

\* a message with all three fields for the midsole was handled and not yet reconciled
C6_Witness ==
  /\ LastIsObjectMsg
  /\ lastEvent.data.part = <<"midsole">>
  /\ TruthyStr(lastEvent.data.color)
  /\ TruthyObj(lastEvent.data.mapping)
  /\ TruthyStr(lastEvent.data.image)
  /\ textures["midsole"] = lastEvent.data.image[1]
  /\ colors["midsole"] = lastEvent.data.color[1]
  /\ dirty

\* ---------------------------------------------------------------------- C7
\* C7: in every reachable state, interactive = false implies
\* selectedPart = null (toggling interaction off deselects).
C7_NonInteractiveHasNoSelection ==
  ~interactive => selectedPart = NULL

\* interaction was toggled off while the laces was selected and outlined
C7_Witness ==
  /\ lastEvent.kind = "toggle"
  /\ ~interactive
  /\ selectedPart = NULL
  /\ scene["laces"].outline

\* ---------------------------------------------------------------------- C8
IsPointerDownStep == nEvents' = nEvents + 1 /\ lastEvent'.kind = "pointerdown"

\* C8: while interactive, a pointer-down on a node selects the node's name if
\* it is in PART_NAMES (replacing any earlier selection) and deselects if not.
C8_PointerDownSelects ==
  [][(IsPointerDownStep /\ interactive)
     => selectedPart' = IF lastEvent'.hit \in PartSet THEN lastEvent'.hit
                                                      ELSE NULL]_vars

\* the logo was clicked while the laces was the selected, outlined one
C8_Witness ==
  /\ lastEvent.kind = "pointerdown"
  /\ lastEvent.hit = "logo"
  /\ selectedPart = "logo"
  /\ interactive
  /\ scene["laces"].outline

\* ---------------------------------------------------------------------- C9
IsPointerMissedStep == nEvents' = nEvents + 1 /\ lastEvent'.kind = "pointermissed"

\* C9: while interactive, a pointer-down that misses all geometry sets
\* selectedPart to null, whatever was selected.
C9_MissDeselects ==
  [][(IsPointerMissedStep /\ interactive) => selectedPart' = NULL]_vars

\* a click missed the shoe while the midsole was the selected, outlined one
C9_Witness ==
  /\ lastEvent.kind = "pointermissed"
  /\ interactive
  /\ selectedPart = NULL
  /\ scene["midsole"].outline

\* --------------------------------------------------------------------- C10
\* C10: while not interactive, a pointer hit or miss changes neither
\* selectedPart nor any other part of the customization state, and no step
\* taken while not interactive changes the selection.
C10_NonInteractiveIgnoresPointer ==
  [][/\ ((IsPointerDownStep \/ IsPointerMissedStep) /\ ~interactive)
         => UNCHANGED custVars
     /\ ~interactive => selectedPart' = selectedPart]_vars

\* a part node was clicked while interaction was off; nothing was selected
C10_Witness ==
  /\ lastEvent.kind = "pointerdown"
  /\ lastEvent.hit \in PartSet
  /\ ~interactive
  /\ selectedPart = NULL


\* --------------------------------------------------------------------- C11
RECURSIVE AttachedFrom(_)
\* number of outlines attached to the nodes PART_NAMES[i..]
AttachedFrom(i) ==
  IF i > Len(PART_NAMES) THEN 0
  ELSE scene[PART_NAMES[i]].attached + AttachedFrom(i + 1)

\* C11: in every reachable state, hence after every pass, the outlines
\* attached over all part nodes number 0 or 1 and no node carries more than
\* one.
C11_AtMostOneOverlay ==
  /\ AttachedFrom(1) \in {0, 1}
  /\ \A p \in PartSet : scene[p].attached \in {0, 1}

\* the selection moved from the midsole to the laces and a pass followed: the
\* midsole's outline was removed and the laces carry the only one
C11_Witness ==
  /\ ~dirty
  /\ scene["midsole"].detached = 1
  /\ scene["laces"].attached = 1
  /\ AttachedFrom(1) = 1

\* --------------------------------------------------------------------- C12
\* the part carries an outline the state no longer asks for
Deselected(p) == scene[p].attached = 1 /\ ~WantsOutline(p)

\* C12: a pass over a node whose part is no longer selected (or interaction
\* is off) detaches exactly its one outline and disposes the outline's
\* geometry and material, creating none; and after every pass each node's
\* detached outlines all had geometry and material disposed, and every
\* outline ever created is either the attached one or a detached one.
C12_DeselectDisposesOverlay ==
  [][IsPassStep =>
       /\ \A p \in PartSet : Deselected(p) =>
            /\ scene'[p].attached = 0
            /\ scene'[p].detached = scene[p].detached + 1
            /\ scene'[p].geomDisposed = scene[p].geomDisposed + 1
            /\ scene'[p].matDisposed = scene[p].matDisposed + 1
            /\ scene'[p].created = scene[p].created
       /\ \A p \in PartSet :
            /\ scene'[p].geomDisposed = scene'[p].detached
            /\ scene'[p].matDisposed = scene'[p].detached
            /\ scene'[p].created = scene'[p].attached + scene'[p].detached]_vars

\* a click missed the shoe while the midsole was outlined, and the pass that
\* followed removed and disposed that outline
C12_Witness ==
  /\ ~dirty
  /\ lastEvent.kind = "pointermissed"
  /\ scene["midsole"].created = 1
  /\ scene["midsole"].detached = 1
  /\ scene["midsole"].matDisposed = 1
  /\ scene["midsole"].attached = 0

\* --------------------------------------------------------------------- C13
\* C13: a node's material has been cloned exactly once if the node is marked
\* cloned and never otherwise; no pass clones a marked node again, whether or
\* not the state changed.
C13_ClonedAtMostOnce ==
  /\ \A p \in PartSet : scene[p].clones = (IF scene[p].cloned THEN 1 ELSE 0)
  /\ \A p \in PartSet : (p \in meshes /\ scene[p].loads > 0) => scene[p].cloned

\* three passes ran over the midsole (the second and third loaded its texture)
\* and it was cloned once
C13_Witness ==
  /\ ~dirty
  /\ scene["midsole"].loads = 2
  /\ scene["midsole"].clones = 1

\* --------------------------------------------------------------------- C14
\* the texture reference of a part, when it has one (if (textures[name]))
HasTexture(p) == textures[p] # NULL /\ textures[p] # ""

\* C14: whichever parts the asset lacks, a pass raises no error, leaves the
\* nodes of the absent parts as they were, and gives every present part the
\* map, tint and outline that the state alone dictates (the same for every
\* asset).
C14_AbsentPartsSkipped ==
  [][IsPassStep =>
       /\ threw' = threw
       /\ \A p \in PartSet :
            IF p \in meshes
              THEN /\ scene'[p].cloned
                   /\ scene'[p].map = (IF HasTexture(p) THEN textures[p] ELSE NULL)
                   /\ scene'[p].tint = (IF HasTexture(p) THEN WHITE ELSE colors[p])
                   /\ scene'[p].outline = (interactive /\ p = selectedPart)
              ELSE scene'[p] = scene[p]]_vars

\* the asset lacks the logo and the laces, a texture was sent for the logo
\* and the midsole was clicked: the midsole is outlined, the upper (after the
\* absent logo in PART_NAMES) has its color, the absent nodes are untouched
C14_Witness ==
  /\ ~dirty
  /\ meshes = PartSet \ {"logo", "laces"}
  /\ textures["logo"] = "blob:a"
  /\ scene["logo"] = AssetNode
  /\ scene["laces"] = AssetNode
  /\ scene["upper"].cloned
  /\ scene["upper"].tint = WHITE
  /\ scene["midsole"].outline

\* --------------------------------------------------------------------- C15
\* C15: once the pass has run on the current state, the map of every present
\* part with a texture repeats (2*scale, 2*scale) times and is offset by
\* (offsetX, offsetY), for the part's mapping {offsetX, offsetY, scale}.
\* Numbers are in hundredths.
C15_MappingOnMap ==
  \A p \in meshes :
    (~dirty /\ textures[p] # NULL) =>
      /\ scene[p].repeat = <<2 * mappings[p].scale, 2 * mappings[p].scale>>
      /\ scene[p].offset = <<mappings[p].offsetX, mappings[p].offsetY>>

\* the midsole has a texture and the mapping {0.25, -0.1, 2}: its map repeats
\* (4, 4) times at offset (0.25, -0.1)
C15_Witness ==
  /\ ~dirty
  /\ textures["midsole"] = "blob:a"
  /\ mappings["midsole"] = [offsetX |-> 25, offsetY |-> -10, scale |-> 200]
  /\ scene["midsole"].repeat = <<400, 400>>
  /\ scene["midsole"].offset = <<25, -10>>

\* --------------------------------------------------------------------- C16
\* C16: a pass leaves every present part with a texture reference showing a
\* map made for that reference under a white tint, and every present part
\* without one showing no map and its flat color as the tint.
C16_MaterialMatchesState ==
  [][IsPassStep =>
       \A p \in meshes :
         IF textures[p] # NULL
           THEN scene'[p].map = textures[p] /\ scene'[p].tint = WHITE
           ELSE scene'[p].map = NULL /\ scene'[p].tint = colors[p]]_vars

\* after a pass the red midsole shows its texture under a white tint while
\* the logo, recolored and without a texture, shows plain red
C16_Witness ==
  /\ ~dirty
  /\ "logo" \in meshes
  /\ colors["midsole"] = "#ff0000"
  /\ scene["midsole"].map = "blob:a"
  /\ scene["midsole"].tint = WHITE
  /\ textures["logo"] = NULL
  /\ scene["logo"].map = NULL
  /\ scene["logo"].tint = "#ff0000"

\* --------------------------------------------------------------------- C17
\* C17: every present part's material, once a pass has gone over it, has no
\* normal, roughness, metalness, bump or ambient-occlusion map and has
\* roughness 1 and metalness 0 (in hundredths: 100 and 0).
C17_SecondaryMapsStripped ==
  \A p \in meshes :
    scene[p].cloned =>
      /\ scene[p].secondaryMaps = {}
      /\ scene[p].roughness = 100
      /\ scene[p].metalness = 0

\* --------------------------------------------------------------------- C18
\* what the renderer draws for a material: its flat tint when it has no map,
\* the map's image under the tint once the image is there, and otherwise the
\* image-less map (an empty texture: neither the image nor the flat color)
Appearance(node) ==
  IF node.map = NULL THEN <<"flat", node.tint>>
  ELSE IF node.image = "loaded" THEN <<"image", node.map, node.tint>>
  ELSE <<"blank", node.tint>>

\* C18: a part whose first texture was applied by a pass and then failed to
\* load is drawn as before the texture was assigned, in its flat color.
C18_FailedLoadKeepsFlatColor ==
  \A p \in meshes :
    (~dirty /\ scene[p].loads = 1 /\ scene[p].image = "failed") =>
      Appearance(scene[p]) = <<"flat", colors[p]>>

\* --------------------------------------------------------------------- C19
\* the texture reference of p was reassigned and the material's map is still
\* the texture made for the earlier reference
Reassigned(p) ==
  textures[p] # NULL /\ scene[p].map # NULL /\ scene[p].map # textures[p]

\* the step is the landing of a load and no pass
IsLoadStep == scene' # scene /\ ~IsPassStep

C20_InitialState ==
  nEvents = 0 =>
    /\ DOMAIN colors = PartSet
    /\ DOMAIN textures = PartSet
    /\ DOMAIN mappings = PartSet
    /\ \A p \in PartSet :
         /\ colors[p] = "#ffffff"
         /\ textures[p] = NULL
         /\ mappings[p] = [offsetX |-> 0, offsetY |-> 0, scale |-> 100]
    /\ selectedPart = NULL
    /\ interactive = TRUE

\* the view was mounted and its first pass ran on the initial state: the
\* midsole is drawn white, without a map or an outline
C20_Witness ==
  /\ nEvents = 0
  /\ lastEvent.kind = "mount"
  /\ ~dirty
  /\ scene["midsole"].cloned
  /\ scene["midsole"].tint = "#ffffff"
  /\ scene["midsole"].map = NULL
  /\ ~scene["midsole"].outline

\* --------------------------------------------------------------------- C21
MappingFields == {"offsetX", "offsetY", "scale"}

\* C21: the state holds one color, one texture entry and one mapping for each
\* part of PART_NAMES and for no other key, and every stored mapping has all
\* of offsetX, offsetY and scale (none is undefined).
C21_WholeRecords ==
  /\ DOMAIN colors = PartSet
  /\ DOMAIN textures = PartSet
  /\ DOMAIN mappings = PartSet
  /\ \A p \in PartSet : DOMAIN mappings[p] = MappingFields

\* --------------------------------------------------------------------- C22
\* C22: the stored scale of every part is strictly positive, whatever mapping
\* values messages or sliders supplied.
C22_ScalePositive ==
  \A p \in PartSet :
    "scale" \in DOMAIN mappings[p] => mappings[p].scale > 0

\* --------------------------------------------------------------------- C23
\* the canvas getCroppedImg has drawn for the crop in flight or done
HasCanvas == cropJob # <<>> /\ cropJob[1].canvas # <<>>

\* the region lies within the image
WithinSource(url, area) ==
  /\ area.x >= 0 /\ area.y >= 0 /\ area.width > 0 /\ area.height > 0
  /\ area.x + area.width <= ImageWidth(url)
  /\ area.y + area.height <= ImageHeight(url)

\* C23: for a region {x, y, width, height} within the source image, the
\* canvas getCroppedImg draws is width x height pixels and its pixel (i, j)
\* is the source pixel (x+i, y+j).
C23_CropIsExactCopy ==
  (HasCanvas /\ WithinSource(cropJob[1].src, cropJob[1].area)) =>
    LET area == cropJob[1].area
        canvas == cropJob[1].canvas[1]
    IN /\ canvas.width = area.width
       /\ canvas.height = area.height
       /\ DOMAIN canvas.px = (0..(area.width - 1)) \X (0..(area.height - 1))
       /\ \A ij \in DOMAIN canvas.px :
            canvas.px[ij] = <<area.x + ij[1], area.y + ij[2]>>

\* the 400 x 300 photo was cropped at {50, 50, 100, 100}: the canvas is
\* 100 x 100 and its corners are the photo's pixels (50,50) and (149,149)
C23_Witness ==
  /\ HasCanvas
  /\ cropJob[1].src = PhotoImage
  /\ cropJob[1].area = [x |-> 50, y |-> 50, width |-> 100, height |-> 100]
  /\ cropJob[1].canvas[1].width = 100
  /\ cropJob[1].canvas[1].height = 100
  /\ cropJob[1].canvas[1].px[<<0, 0>>] = <<50, 50>>
  /\ cropJob[1].canvas[1].px[<<99, 99>>] = <<149, 149>>

\* --------------------------------------------------------------------- C24
\* the step ends a crop that failed: the job is dropped without a result
IsCropFailStep == CropInFlight /\ cropJob' = <<>>

\* C24: when a crop fails, by the image failing to decode or by the
\* serialization yielding no data, the colors, textures and mappings of every
\* part stay as they were, no error escapes, and the crop dialog is closed.
C24_FailedCropChangesNothing ==
  [][IsCropFailStep =>
       /\ colors' = colors
       /\ textures' = textures
       /\ mappings' = mappings
       /\ threw' = threw
       /\ ~showCrop'
       /\ imageSrc' = NULL]_vars

\* a crop for the midsole failed while serializing: the dialog is closed and
\* the midsole still has no texture
C24_Witness ==
  /\ lastEvent.kind = "apply"
  /\ cropJob = <<>>
  /\ ~showCrop
  /\ imageSrc = NULL
  /\ textures["midsole"] = NULL
  /\ ~dirty

\* --------------------------------------------------------------------- C25
\* C25: when the asset loader has failed the view shows a loading or error
\* placeholder and has not crashed; and as long as the asset is loading or
\* failed, no pass has touched a node.
C25_AssetFailureShowsPlaceholder ==
  /\ gltf = "failed" => view \in {"loading", "error"}
  /\ gltf # "ready" => \A p \in PartSet : scene[p] = AssetNode

\* --------------------------------------------------------------------- C26
\* C26: after the view is torn down no outline is attached to a node, every
\* outline made has had its geometry and material disposed, and every cloned
\* material has been disposed.
C26_TeardownReleasesAll ==
  view = "unmounted" =>
    \A p \in PartSet :
      /\ scene[p].attached = 0
      /\ scene[p].geomDisposed = scene[p].created
      /\ scene[p].matDisposed = scene[p].created
      /\ scene[p].clonesDisposed = scene[p].clones

\* --------------------------------------------------------------------- C27
\* the tint and map a part is drawn with: those of the material its mesh
\* references
Shown(sc, orig, p) ==
  IF sc[p].material = "clone"
    THEN [tint |-> sc[p].tint, map |-> sc[p].map]
    ELSE [tint |-> orig.tint, map |-> orig.map]

\* C27: no step writes to the material the asset came with, which the part
\* meshes share; after a pass every present part is drawn with its own
\* clone, in its own color or texture.
C27_OriginalNeverWritten ==
  [][/\ original' = AssetMaterial
     /\ IsPassStep =>
          \A p \in meshes :
            /\ scene'[p].material = "clone"
            /\ Shown(scene', original', p) =
                 [tint |-> IF textures[p] # NULL THEN WHITE ELSE colors[p],
                  map |-> textures[p]]]_vars

\* the logo and the midsole shared one material in the asset; after the logo
\* was made red and the midsole got a texture each shows its own, and the
\* asset's material is as it was loaded
C27_Witness ==
  /\ ~dirty
  /\ "logo" \in meshes
  /\ Shown(scene, original, "logo") = [tint |-> "#ff0000", map |-> NULL]
  /\ Shown(scene, original, "midsole") = [tint |-> WHITE, map |-> "blob:a"]
  /\ original = AssetMaterial

\* --------------------------------------------------------------------- C28
\* C28: a pass over the selected part's node that already carries an outline,
\* with interaction enabled, constructs no outline and removes none: the
\* outline that was there is kept.
C28_OverlayKept ==
  [][IsPassStep =>
       \A p \in PartSet :
         (scene[p].attached = 1 /\ interactive /\ selectedPart = p) =>
           /\ scene'[p].created = scene[p].created
           /\ scene'[p].detached = scene[p].detached]_vars

\* --------------------------------------------------------------------- C29
\* C29: after a pass, the node of a present part carries an outline, and
\* exactly one, if and only if interaction is enabled and the part is the
\* selected one.
C29_OverlayIffSelected ==
  [][IsPassStep =>
       \A p \in meshes :
         /\ scene'[p].outline <=> (interactive /\ selectedPart = p)
         /\ scene'[p].attached = (IF interactive /\ selectedPart = p THEN 1 ELSE 0)]_vars

\* interaction was switched off while the laces were outlined, and the pass
\* that followed took the outline off
C29_Witness ==
  /\ ~dirty
  /\ lastEvent.kind = "toggle"
  /\ ~interactive
  /\ scene["laces"].created = 1
  /\ scene["laces"].attached = 0
  /\ ~scene["laces"].outline

\* --------------------------------------------------------------------- C30
\* a message that sets a mapping and neither color nor image
MappingOnly(data) ==
  /\ ForKnownPart(data)
  /\ TruthyObj(data.mapping)
  /\ ~TruthyStr(data.color)
  /\ ~TruthyStr(data.image)

\* C30: a mapping message for a known part without a texture stores the
\* mapping and changes no color and no texture reference; and every pass
\* gives the map of a present part with a texture the repeat and offset of
\* the mapping stored for it, whenever that mapping was sent.
C30_StoredMappingApplied ==
  [][/\ (IsMsgStep /\ MappingOnly(lastEvent'.data)
           /\ textures[lastEvent'.data.part[1]] = NULL) =>
          /\ mappings'[lastEvent'.data.part[1]] = lastEvent'.data.mapping[1]
          /\ colors' = colors
          /\ textures' = textures
     /\ IsPassStep =>
          \A p \in meshes :
            textures[p] # NULL =>
              /\ scene'[p].repeat = <<2 * mappings[p].scale, 2 * mappings[p].scale>>
              /\ scene'[p].offset = <<mappings[p].offsetX, mappings[p].offsetY>>]_vars

\* the midsole got its mapping while it had no texture; the image came in a
\* later message without a mapping, and the pass applied the stored mapping
C30_Witness ==
  /\ ~dirty
  /\ LastIsObjectMsg
  /\ ImageOnly(lastEvent.data)
  /\ lastEvent.data.part = <<"midsole">>
  /\ lastEvent.data.mapping = <<>>
  /\ mappings["midsole"] = [offsetX |-> 25, offsetY |-> -10, scale |-> 200]
  /\ scene["midsole"].loads = 1
  /\ scene["midsole"].repeat = <<400, 400>>
  /\ scene["midsole"].offset = <<25, -10>>

\* --------------------------------------------------------------------- C31
\* React runs the effect of a committed render whose dependencies changed:
\* a pending pass is not postponed forever
SpecLive == Init /\ [][Next]_vars /\ WF_vars(Reconcile)

\* the node of part p shows what the state holds for p: its own material with
\* the part's texture and mapping or its flat color, and an outline exactly
\* when p is selected with interaction on
Rendered(sc, p) ==
  /\ sc[p].material = "clone"
  /\ sc[p].map = textures[p]
  /\ sc[p].tint = (IF textures[p] # NULL THEN WHITE ELSE colors[p])
  /\ textures[p] # NULL =>
       /\ sc[p].repeat = <<2 * mappings[p].scale, 2 * mappings[p].scale>>
       /\ sc[p].offset = <<mappings[p].offsetX, mappings[p].offsetY>>
  /\ sc[p].outline <=> (interactive /\ selectedPart = p)

AllRendered == \A p \in meshes : Rendered(scene, p)

\* C31: whenever the scene does not show the state (a color, texture,
\* mapping, the selection or the interaction flag was changed), a pass
\* follows after which it does; and every pass is computed from the one state
\* it starts in: after it every present part shows that state, none an older
\* one.
C31_EveryChangeReconciled ==
  /\ (~AllRendered) ~> AllRendered
  /\ [][IsPassStep =>
          /\ UNCHANGED custVars
          /\ \A p \in meshes : Rendered(scene', p)]_vars

\* two changes were made back to back, to the logo's color and to the
\* midsole's texture, and the pass that followed shows both
C31_Witness ==
  /\ ~dirty
  /\ nEvents = 2
  /\ colors["logo"] = "#ff0000"
  /\ textures["midsole"] = "blob:a"
  /\ scene["midsole"].loads = 1
  /\ scene["midsole"].clones = 1
  /\ "logo" \in meshes
  /\ scene["logo"].tint = "#ff0000"
  /\ AllRendered

\* --------------------------------------------------------------------- C32
\* the textures the passes created for part p that were not disposed
LiveTextures(p) == scene[p].loads - scene[p].mapsDisposed

\* the material of p references a texture a pass created
HasOwnMap(p) == scene[p].map # NULL /\ scene[p].map # AssetMap

\* C32: every texture a pass created is the current map of its part's
\* material or has been disposed: a part has at most one live texture when its
\* material has a map and none when it has not.
C32_TexturesReleased ==
  \A p \in PartSet :
    LiveTextures(p) <= (IF HasOwnMap(p) THEN 1 ELSE 0)

\* --------------------------------------------------------------------- C33
\* C33: the page has exactly one registered message handler while it is
\* mounted and none before it is mounted or after it is unmounted, however
\* often it is mounted; and a message that arrives while the page is not
\* mounted changes no color, texture, mapping, selection or flag.
C33_OneListenerWhileMounted ==
  /\ [](listeners = (IF PageMounted THEN 1 ELSE 0))
  /\ [][(IsMsgStep /\ ~PageMounted) => UNCHANGED custVars]_vars

\* the page was mounted, unmounted and mounted again, and then handled a
\* message with its one handler
C33_Witness ==
  /\ nMounts = 2
  /\ PageMounted
  /\ listeners = 1
  /\ LastIsObjectMsg
  /\ textures["midsole"] = "blob:a"

\* --------------------------------------------------------------------- C34
\* the step is a click on Apply / the step completes a crop with its blob
IsApplyStep == nEvents' = nEvents + 1 /\ lastEvent'.kind = "apply"
IsCropDoneStep == CropInFlight /\ cropJob' # <<>> /\ cropJob'[1].phase = "done"

\* C34: a crop started by Apply with part p selected belongs to p until it
\* ends, and when it succeeds its url becomes the texture of p and of no
\* other part, whatever the selection and the interaction flag are by then;
\* Apply with no part selected or no region closes the dialog, starts no crop
\* and leaves textures unchanged.
C34_CropGoesToPartAtApply ==
  [][/\ (IsApplyStep /\ selectedPart # NULL /\ croppedAreaPixels # <<>>) =>
          /\ CropInFlight'
          /\ cropJob'[1].part = selectedPart
          /\ textures' = textures
     /\ (CropInFlight /\ CropInFlight') => cropJob'[1].part = cropJob[1].part
     /\ IsCropDoneStep =>
          /\ cropJob'[1].part = cropJob[1].part
          /\ textures' = Put(textures, cropJob[1].part, CropUrl)
     /\ (IsApplyStep /\ (selectedPart = NULL \/ croppedAreaPixels = <<>>)) =>
          /\ textures' = textures
          /\ cropJob' = cropJob
          /\ ~showCrop'
          /\ imageSrc' = NULL]_vars

\* Apply was clicked with the midsole selected; while the image was decoding
\* the laces were clicked; the crop succeeded and is the midsole's texture
C34_Witness ==
  /\ cropJob # <<>> /\ cropJob[1].phase = "done"
  /\ lastEvent.kind = "pointerdown"
  /\ selectedPart = "laces"
  /\ textures = Put(initialTextures, "midsole", CropUrl)
  /\ ~showCrop

\* --------------------------------------------------------------------- C35
\* C35: a message for a known part p leaves every other part q with the
\* color, texture and mapping it had before the message.
C35_OtherPartsUntouched ==
  [][(IsMsgStep /\ ForKnownPart(lastEvent'.data)) =>
       \A q \in PartSet \ {lastEvent'.data.part[1]} :
         /\ q \in DOMAIN colors' /\ colors'[q] = colors[q]
         /\ q \in DOMAIN textures' /\ textures'[q] = textures[q]
         /\ q \in DOMAIN mappings' /\ mappings'[q] = mappings[q]]_vars

\* the midsole had got a texture and a mapping; a message with a color, a
\* mapping and an image for the logo left the midsole's entries as they were
C35_Witness ==
  /\ nEvents = 2
  /\ LastIsObjectMsg
  /\ lastEvent.data.part = <<"logo">>
  /\ TruthyStr(lastEvent.data.color)
  /\ TruthyObj(lastEvent.data.mapping)
  /\ TruthyStr(lastEvent.data.image)
  /\ textures["logo"] = "blob:a"
  /\ colors["midsole"] = WHITE
  /\ textures["midsole"] = "blob:a"
  /\ mappings["midsole"] = [offsetX |-> 25, offsetY |-> -10, scale |-> 200]

\* --------------------------------------------------------------------- C36
\* the step delivers a pointer-down, a missed click or the interaction toggle
IsPointerOrToggleStep ==
  /\ nEvents' = nEvents + 1
  /\ lastEvent'.kind \in {"pointerdown", "pointermissed", "toggle"}

\* C36: a message, whatever e.data is, leaves selectedPart and interactive
\* as they were; a pointer-down, a missed click and the interaction toggle
\* leave the colors, textures and mappings of all parts as they were.
C36_MessagesAndPointersDisjoint ==
  [][/\ IsMsgStep =>
          /\ selectedPart' = selectedPart
          /\ interactive' = interactive
     /\ IsPointerOrToggleStep =>
          /\ colors' = colors
          /\ textures' = textures
          /\ mappings' = mappings]_vars

\* the laces were selected by a click; a message that recolored the midsole
\* and gave it a mapping left the selection on the laces
C36_Witness ==
  /\ nEvents = 2
  /\ LastIsObjectMsg
  /\ lastEvent.data.part = <<"midsole">>
  /\ colors["midsole"] = "#ff0000"
  /\ mappings["midsole"] = [offsetX |-> 25, offsetY |-> -10, scale |-> 200]
  /\ selectedPart = "laces"
  /\ interactive

\* --------------------------------------------------------------------- C37
\* the state after one message is handled and rendered on its own
HandleOne(st, data) ==
  IF DestructureThrows(data) \/ ~KnownPart(Destructure(data))
    THEN st
    ELSE ApplyFields(st, HandlerOrder, Destructure(data).part[1], Destructure(data))

RECURSIVE OneAtATime(_, _, _)
\* the state after the messages msgs[i], msgs[i+1], ... are handled one at a
\* time in arrival order
OneAtATime(i, st, msgs) ==
  IF i > Len(msgs) THEN st
  ELSE OneAtATime(i + 1, HandleOne(st, msgs[i]), msgs)

\* C37: when messages were handled back to back before a render, the render
\* gives the colors, textures and mappings that handling them one at a time
\* in arrival order gives: no update is lost, the later write to the same part
\* and field wins.
C37_BatchEqualsSequential ==
  [][(batch # <<>> /\ batch' = <<>>) =>
       Cust(colors', textures', mappings') =
         OneAtATime(1, Cust(colors, textures, mappings), batch)]_vars

\* one render applied two messages, the first with a color and an image for
\* the logo, the second with another color for the midsole: both parts have
\* their color and the logo has its image
C37_Witness ==
  /\ Len(flushed) = 2
  /\ batch = <<>>
  /\ flushed[1].kind = "object" /\ flushed[1].part = <<"logo">>
  /\ flushed[1].color = <<"#ff0000">> /\ flushed[1].image = <<"blob:a">>
  /\ flushed[2].kind = "object" /\ flushed[2].part = <<"midsole">>
  /\ flushed[2].color = <<"#00ff00">>
  /\ colors["logo"] = "#ff0000"
  /\ colors["midsole"] = "#00ff00"
  /\ textures["logo"] = "blob:a"

\* --------------------------------------------------------------------- C38
\* the step delivers a message with a non-empty color for the known part p
IsColorMsgStepFor(p) ==
  /\ IsMsgStep
  /\ ForKnownPart(lastEvent'.data)
  /\ lastEvent'.data.part[1] = p
  /\ TruthyStr(lastEvent'.data.color)

\* the step takes the texture of part p away
RemovesTexture(p) == textures[p] # NULL /\ textures'[p] = NULL

\* C38 as stated: a part's texture is set back to null only by a message with
\* a non-empty color for that part, which writes that color; and the part
\* does not come out of it with the color it had under the texture.
C38_RemovalNeverKeepsColor ==
  [][\A p \in PartSet :
       RemovesTexture(p) =>
         /\ IsColorMsgStepFor(p)
         /\ colors'[p] = lastEvent'.data.color[1]
         /\ colors'[p] # colors[p]]_vars

\* C38, amended: a part's texture is set back to null only by a message with
\* a non-empty color for that part, and that step sets the part's color to
\* the color the message carries (which may be the color it already had); no
\* crop, slider move, pointer event, toggle or other message removes it.
C38_OnlyColorMessageRemovesTexture ==
  [][\A p \in PartSet :
       RemovesTexture(p) =>
         /\ IsColorMsgStepFor(p)
         /\ colors'[p] = lastEvent'.data.color[1]]_vars

\* the midsole got its texture from a crop, and a message with a color for
\* the midsole took the texture away and set the color
C38_Witness ==
  /\ cropJob # <<>> /\ cropJob[1].phase = "done" /\ cropJob[1].part = "midsole"
  /\ LastIsObjectMsg
  /\ lastEvent.data.part = <<"midsole">>
  /\ lastEvent.data.color = <<"#ff0000">>
  /\ lastEvent.data.image = <<>>
  /\ textures["midsole"] = NULL
  /\ colors["midsole"] = "#ff0000"

====
